---------------------------- MODULE Spec2Model ----------------------------
(***************************************************************************)
(* A model of drmimage (src/main.rs): the program that opens the first     *)
(* usable DRM card, resolves connector -> encoder -> CRTC -> free plane,   *)
(* copies a decoded RGBA image into a dumb buffer as ARGB8888 and commits  *)
(* it on the plane, then parks forever.                                    *)
(*                                                                         *)
(* The program is sequential: pc is the position in main/display.  The     *)
(* kernel, the file system and the image decoder are the environment: what *)
(* each call returns is chosen when the call is made.                      *)
(***************************************************************************)
EXTENDS Integers, Sequences, FiniteSets

VARIABLES
    hasArg,        \* std::env::args_os().nth(1) is Some: an image path was given
    pc,            \* position in main / display / find_device / get_crtc_plane
    err,           \* how the run ended: "" while running, else the bail! / panic reason
    scanIdx,       \* find_device: the next identifier `i` of (0..=255)
    card,          \* the identifier of the node behind Card(File), -1 before it is opened
    openResult,    \* what the last Card::open returned: "" before the first
    emitted,       \* identifier named by the diagnostic the last open printed, -1 if none
    master,        \* the process holds the DRM master lock
    calls,         \* the calls made on the opened card, in order
    resources,     \* ResourceHandles: connectors and crtcs catalogs
    connIdx,       \* find_map position in resources.connectors()
    probe,         \* the closure's result of get_connector for the last handle
    connector,     \* connector::Info of the match (handle 0: none yet)
    encoder,       \* encoder::Info
    crtc,          \* crtc::Info
    planeHandles,  \* get_crtc_plane: the result of plane_handles()
    planeIdx,      \* get_crtc_plane: position of the for loop
    plane,         \* plane::Info: the loop's current plane, then the returned one
    picture,       \* the decoded RgbaImage: width, height and content
    buffer,        \* DumbBuffer: size, pitch, handle
    mem,           \* the bytes of the dumb buffer
    mapped,        \* a DumbMapping of the buffer is alive
    pix,           \* position of the enumerate_pixels loop (1-based, row-major)
    touched,       \* byte indices the copy loop has stored to
    framebuffer,   \* framebuffer::Handle (0: none)
    commit         \* the arguments of the set_plane call (plane 0: not called)

vars == <<hasArg, pc, err, scanIdx, card, openResult, emitted, master, calls,
          resources, connIdx, probe, connector, encoder, crtc, planeHandles, planeIdx, plane, picture,
          buffer, mem, mapped, pix, touched, framebuffer, commit>>

scanVars  == <<scanIdx, card, openResult, emitted>>
resVars   == <<resources, connIdx, probe, connector, encoder, crtc>>
planeVars == <<planeHandles, planeIdx, plane>>
bufVars   == <<picture, buffer, mem, mapped, pix, touched>>
outVars   == <<framebuffer, commit>>

---------------------------------------------------------------------------
(* Bounds of the environment *)

\* device nodes card0..cardMaxNode, and the last one of the range, may exist
MaxNode == 1
\* connectors in the resource catalog
MaxConn == 2
\* CRTCs in the resource catalog
MaxCrtc == 2
\* planes the device enumerates
MaxPlanes == 2
\* width and height of images and buffers
MaxDim == 2
\* padding pixels the allocator may add to a row
MaxPad == 1

(* Program constants *)

\* (0..=255) in find_device
LastCard == 255
\* DrmFourcc::Argb8888 as u32, fourcc 'AR24'
Argb8888 == 875713089

---------------------------------------------------------------------------
(* The environment's values *)

PresentNodes == (0..MaxNode) \cup {LastCard}

\* what OpenOptions::open can give for /dev/dri/card{i}
OpenResults(i) ==
    IF i \in PresentNodes THEN {"ok", "not_found", "denied"} ELSE {"not_found"}

ConnectorStates == {"Connected", "Disconnected", "Unknown"}

\* a plane's format lists: 'XR24' alone, 'AR24' alone, both
FormatLists == {<<875713112>>, <<Argb8888>>, <<875713112, Argb8888>>}

Patterns == {"red", "distinct"}

NoInfo == [handle |-> 0]
NoResources == [connectors |-> <<>>, crtcs |-> <<>>]
NoPicture == [w |-> 0, h |-> 0, pat |-> "red"]
NoBuffer == [size |-> <<0, 0>>, pitch |-> 0, length |-> 0, handle |-> 0]
NoCommit == [plane |-> 0, crtc |-> 0, fb |-> 0, flags |-> 0,
             dst |-> <<0, 0, 0, 0>>,
             src |-> <<0, 0, [hi |-> 0, lo |-> 0], [hi |-> 0, lo |-> 0]>>]

Call(op, arg) == [op |-> op, arg |-> arg]

Range(s) == {s[i] : i \in 1..Len(s)}

\* the channels <<r, g, b, a>> of the decoded pixel at column x, row y
PixelAt(pic, x, y) ==
    IF pic.pat = "red" THEN <<255, 0, 0, 255>>
    ELSE LET k == 4 * (y * pic.w + x)
         IN  <<k + 1, k + 2, k + 3, k + 4>>


---------------------------------------------------------------------------
(* The state after construction: the process has started, nothing is open *)

Init ==
    /\ hasArg \in BOOLEAN
    /\ pc = "main"
    /\ err = ""
    /\ scanIdx = 0
    /\ card = -1
    /\ openResult = ""
    /\ emitted = -1
    /\ master = FALSE
    /\ calls = <<>>
    /\ resources = NoResources
    /\ connIdx = 0
    /\ probe = NoInfo
    /\ connector = NoInfo
    /\ encoder = NoInfo
    /\ crtc = NoInfo
    /\ planeHandles = <<>>
    /\ planeIdx = 0
    /\ plane = NoInfo
    /\ picture = NoPicture
    /\ buffer = NoBuffer
    /\ mem = <<>>
    /\ mapped = FALSE
    /\ pix = 0
    /\ touched = {}
    /\ framebuffer = 0
    /\ commit = NoCommit

\* bail!(..) and a failed `?`: display returns Err, main returns it, the process exits
Bail(msg) ==
    /\ pc' = "error"
    /\ err' = msg

\* unwrap() on None or Err, and an index out of bounds: the thread panics
Panic(msg) ==
    /\ pc' = "panic"
    /\ err' = msg

Goto(label) ==
    /\ pc' = label
    /\ err' = err

---------------------------------------------------------------------------
(* main, lines 74-81 *)

\* a main that goes on to display whether or not a path was given
MainIgnoresArg ==
    /\ pc = "main"
    /\ Goto("find_device")
    /\ UNCHANGED <<hasArg, scanVars, master, calls, resVars, planeVars, bufVars, outVars>>

Main ==
    /\ pc = "main"
    /\ IF hasArg THEN Goto("find_device") ELSE Bail("usage")
    /\ UNCHANGED <<hasArg, scanVars, master, calls, resVars, planeVars, bufVars, outVars>>

---------------------------------------------------------------------------
(* Card::find_device, lines 86-97, and its caller, lines 14-16 *)

\* a diagnostic printed for every failed open, NotFound included
DiagnosedAlways(result) == result # "ok"

\* the diagnostic of inspect_err: printed unless the error kind is NotFound
Diagnosed(result) == result # "ok" /\ result # "not_found"

\* the last identifier of the range (0..=255)
ScanLast == LastCard

\* a display that goes on without a card
ScanFailedIgnored == Goto("acquire")

\* lines 14-16: find_device returned None
ScanFailed == Bail("no_card")

\* one turn of find_map: try to open /dev/dri/card{scanIdx}
OpenCard ==
    /\ pc = "find_device"
    /\ \E result \in OpenResults(scanIdx) :
          /\ openResult' = result
          /\ emitted' = IF Diagnosed(result) THEN scanIdx ELSE -1
          /\ scanIdx' = scanIdx + 1
          /\ IF result = "ok"
             THEN /\ card' = scanIdx
                  /\ Goto("acquire")
             ELSE /\ card' = card
                  /\ IF scanIdx >= ScanLast
                     THEN ScanFailed
                     ELSE Goto("find_device")
    /\ UNCHANGED <<hasArg, master, calls, resVars, planeVars, bufVars, outVars>>

---------------------------------------------------------------------------
(* display, lines 18-27: master lock, resources, connector, encoder, crtc *)

\* an acquire whose failure is ignored
AcquireIgnoresFailure ==
    /\ pc = "acquire"
    /\ calls' = Append(calls, Call("acquire_master_lock", 0))
    /\ \E ok \in BOOLEAN :
          IF ok THEN master' = TRUE /\ Goto("resources")
                ELSE master' = master /\ Goto("resources")
    /\ UNCHANGED <<hasArg, scanVars, resVars, planeVars, bufVars, outVars>>

\* line 18: acquire_master_lock()?
AcquireMasterLock ==
    /\ pc = "acquire"
    /\ calls' = Append(calls, Call("acquire_master_lock", 0))
    /\ \E ok \in BOOLEAN :
          IF ok THEN master' = TRUE /\ Goto("resources")
                ELSE master' = master /\ Bail("acquire_master_lock")
    /\ UNCHANGED <<hasArg, scanVars, resVars, planeVars, bufVars, outVars>>

\* the catalogs the device reports: n connectors, MaxCrtc crtcs
Catalog(n) ==
    [connectors |-> [i \in 1..n |-> 100 + i],
     crtcs      |-> [i \in 1..MaxCrtc |-> 40 + i]]

ResourceHandles ==
    /\ pc = "resources"
    /\ calls' = Append(calls, Call("resource_handles", 0))
    /\ \/ /\ \E n \in 0..MaxConn : resources' = Catalog(n)
          /\ connIdx' = 1
          /\ Goto("connectors")
       \/ /\ Bail("resource_handles")
          /\ UNCHANGED <<resources, connIdx>>
    /\ UNCHANGED <<hasArg, scanVars, master, probe, connector, encoder, crtc, planeVars,
                   bufVars, outVars>>

\* a test that takes every state but Disconnected for a connected output
IsNotDisconnected(info) == info.state # "Disconnected"

\* line 22: the test of the find_map closure
IsConnected(info) == info.state = "Connected"

\* one turn of find_map over resources.connectors(): get_connector(handle, false);
\* a failed fetch is `.ok()?` inside the closure, which yields None for this
\* handle and lets find_map go on
GetConnector ==
    /\ pc = "connectors"
    /\ connIdx <= Len(resources.connectors)
    /\ LET handle == resources.connectors[connIdx] IN
       /\ calls' = Append(calls, Call("get_connector", handle))
       /\ \/ /\ probe' = [handle |-> handle, state |-> "fetch_failed", encoder |-> 0]
             /\ connIdx' = connIdx + 1
             /\ Goto("connectors")
             /\ UNCHANGED connector
          \/ \E st \in ConnectorStates, enc \in {0, 30 + connIdx} :
                LET info == [handle |-> handle, state |-> st, encoder |-> enc] IN
                /\ probe' = info
                /\ IF IsConnected(info)
                   THEN /\ connector' = info
                        /\ connIdx' = connIdx
                        /\ Goto("encoder")
                   ELSE /\ connector' = connector
                        /\ connIdx' = connIdx + 1
                        /\ Goto("connectors")
    /\ UNCHANGED <<hasArg, scanVars, master, resources, encoder, crtc, planeVars,
                   bufVars, outVars>>

\* find_map ran out of connectors: lines 23-25
NoConnector ==
    /\ pc = "connectors"
    /\ connIdx > Len(resources.connectors)
    /\ Bail("no_connected_output")
    /\ UNCHANGED <<hasArg, scanVars, master, calls, resVars, planeVars, bufVars, outVars>>

\* line 26
GetEncoder ==
    /\ pc = "encoder"
    /\ IF connector.encoder = 0
       THEN /\ Panic("unwrap_current_encoder")
            /\ UNCHANGED <<calls, encoder>>
       ELSE /\ calls' = Append(calls, Call("get_encoder", connector.encoder))
            /\ \/ /\ \E c \in {0} \cup Range(resources.crtcs) :
                        encoder' = [handle |-> connector.encoder, crtc |-> c]
                  /\ Goto("crtc")
               \/ /\ Bail("get_encoder")
                  /\ UNCHANGED encoder
    /\ UNCHANGED <<hasArg, scanVars, master, resources, connIdx, probe, connector, crtc,
                   planeVars, bufVars, outVars>>

\* line 27
GetCrtc ==
    /\ pc = "crtc"
    /\ IF encoder.crtc = 0
       THEN /\ Panic("unwrap_crtc")
            /\ UNCHANGED <<calls, crtc>>
       ELSE /\ calls' = Append(calls, Call("get_crtc", encoder.crtc))
            /\ \/ /\ crtc' = [handle |-> encoder.crtc]
                  /\ Goto("plane_handles")
               \/ /\ Bail("get_crtc")
                  /\ UNCHANGED crtc
    /\ UNCHANGED <<hasArg, scanVars, master, resources, connIdx, probe, connector,
                   encoder, planeVars, bufVars, outVars>>

---------------------------------------------------------------------------
(* Card::get_crtc_plane, lines 103-119, called at line 28 *)

\* the handle of the i-th plane the device enumerates
PlaneHandle(i) == 50 + i

PlaneHandles ==
    /\ pc = "plane_handles"
    /\ calls' = Append(calls, Call("plane_handles", 0))
    /\ \/ /\ \E n \in 0..MaxPlanes : planeHandles' = [i \in 1..n |-> PlaneHandle(i)]
          /\ planeIdx' = 1
          /\ Goto("planes")
       \/ /\ Bail("plane_handles")
          /\ UNCHANGED <<planeHandles, planeIdx>>
    /\ UNCHANGED <<hasArg, scanVars, master, resVars, plane, bufVars, outVars>>

\* bit n of a possible_crtcs mask
Bit(mask, n) == (mask \div (2 ^ n)) % 2

\* ResourceHandles::filter_crtcs: the crtcs of the catalog whose position's bit is
\* set in the mask
FilterCrtcs(res, mask) ==
    {res.crtcs[n + 1] : n \in {m \in 0..(Len(res.crtcs) - 1) : Bit(mask, m) = 1}}

\* a test that forgets the plane's current crtc
PlaneFitsIgnoringOwner(info, res, target) ==
    target \in FilterCrtcs(res, info.possible)

\* lines 110-114: the plane is free and can reach the crtc
PlaneFits(info, res, target) ==
    /\ info.crtc = 0
    /\ target \in FilterCrtcs(res, info.possible)

\* what get_plane can report for a plane
PlaneInfos(handle) ==
    [handle   : {handle},
     crtc     : {0} \cup Range(resources.crtcs),
     possible : 0..(2 ^ MaxCrtc - 1),
     formats  : FormatLists]

\* one turn of the for loop: get_plane(handle)?, then the test; returning drops
\* the loop's locals
GetPlane ==
    /\ pc = "planes"
    /\ planeIdx <= Len(planeHandles)
    /\ LET handle == planeHandles[planeIdx] IN
       /\ calls' = Append(calls, Call("get_plane", handle))
       /\ \/ /\ Bail("get_plane")
             /\ UNCHANGED planeVars
          \/ \E info \in PlaneInfos(handle) :
                /\ plane' = info
                /\ IF PlaneFits(info, resources, crtc.handle)
                   THEN /\ planeHandles' = <<>>
                        /\ planeIdx' = 0
                        /\ Goto("format")
                   ELSE /\ planeHandles' = planeHandles
                        /\ planeIdx' = planeIdx + 1
                        /\ Goto("planes")
    /\ UNCHANGED <<hasArg, scanVars, master, resVars, bufVars, outVars>>

\* line 118: the loop ran out of planes
NoPlane ==
    /\ pc = "planes"
    /\ planeIdx > Len(planeHandles)
    /\ Bail("no_suitable_plane")
    /\ UNCHANGED <<hasArg, scanVars, master, calls, resVars, planeVars, bufVars, outVars>>

---------------------------------------------------------------------------
(* display, lines 29-39: format check, decode, dumb buffer *)

\* a check for the fourcc 'XR24' in place of 'AR24'
HasXrgb(formats) == \E i \in 1..Len(formats) : formats[i] = 875713112

\* lines 29-33: formats().iter().copied().any(|f| f == Argb8888 as u32)
HasArgb(formats) == \E i \in 1..Len(formats) : formats[i] = Argb8888

CheckFormat ==
    /\ pc = "format"
    /\ IF HasArgb(plane.formats) THEN Goto("decode") ELSE Bail("unsupported_format")
    /\ UNCHANGED <<hasArg, scanVars, master, calls, resVars, planeVars, bufVars, outVars>>

\* line 37: image::open(path).unwrap().into_rgba8()
Decode ==
    /\ pc = "decode"
    /\ \/ /\ \E w \in 1..MaxDim, h \in 1..MaxDim, pat \in Patterns :
                picture' = [w |-> w, h |-> h, pat |-> pat]
          /\ Goto("create")
       \/ /\ Panic("unwrap_image_open")
          /\ UNCHANGED picture
    /\ UNCHANGED <<hasArg, scanVars, master, calls, resVars, planeVars, buffer, mem,
                   mapped, pix, touched, outVars>>

\* the pitches the allocator may choose for a row of w 32-bit pixels
Pitches(w) == {4 * w + 4 * k : k \in 0..MaxPad}

\* a fresh dumb buffer is zero-filled; bytes are numbered from 0
Zeroed(len) == [i \in 0..(len - 1) |-> 0]

\* a request with the dimensions swapped
NewBufferSwapped(w, h, pitch) ==
    [size |-> <<h, w>>, pitch |-> pitch, length |-> h * pitch, handle |-> 60]

\* the DumbBuffer the device returns for a request of w x h pixels
NewBuffer(w, h, pitch) ==
    [size |-> <<w, h>>, pitch |-> pitch, length |-> h * pitch, handle |-> 60]

\* line 38: create_dumb_buffer(picture.dimensions(), Argb8888, 32)?
CreateDumbBuffer ==
    /\ pc = "create"
    /\ calls' = Append(calls, Call("create_dumb_buffer", 0))
    /\ \/ /\ \E pitch \in Pitches(picture.w) :
                /\ buffer' = NewBuffer(picture.w, picture.h, pitch)
                /\ mem' = Zeroed(picture.h * pitch)
          /\ Goto("map")
       \/ /\ Bail("create_dumb_buffer")
          /\ UNCHANGED <<buffer, mem>>
    /\ UNCHANGED <<hasArg, scanVars, master, resVars, planeVars, picture, mapped, pix,
                   touched, outVars>>

---------------------------------------------------------------------------
(* display, lines 40-57: the scoped mapping and the copy loop *)

\* line 42: map_dumb_buffer(&mut buffer)?
MapDumbBuffer ==
    /\ pc = "map"
    /\ calls' = Append(calls, Call("map_dumb_buffer", buffer.handle))
    /\ \/ /\ mapped' = TRUE
          /\ pix' = 1
          /\ Goto("write")
       \/ /\ Bail("map_dumb_buffer")
          /\ UNCHANGED <<mapped, pix>>
    /\ UNCHANGED <<hasArg, scanVars, master, resVars, planeVars, picture, buffer, mem,
                   touched, outVars>>

\* enumerate_pixels: the pix-th pixel, rows top to bottom, each left to right
PixX(pic, k) == (k - 1) % pic.w
PixY(pic, k) == (k - 1) \div pic.w

\* the skip test off by one
SkipPixelOffByOne(x, size) == x > size[1]

\* line 44: the pixel lies right of the buffer
SkipPixel(x, size) == x >= size[1]

\* the stop test off by one
StopRowOffByOne(y, size) == y > size[2]

\* line 47: the row lies below the buffer
StopRow(y, size) == y >= size[2]

\* line 50
ByteIndex(x, y, pitch) == x * 4 + y * pitch

\* the channels stored in the image's own order r, g, b, a
StoredBytesRgba(px) == px

\* lines 52-55: the bytes stored at index + 0 .. index + 3 for a pixel <<r, g, b, a>>
StoredBytes(px) == <<px[3], px[2], px[1], px[4]>>

\* one turn of the for loop of line 43.  The first store is to index + 3, so a
\* pixel that does not fit the mapping panics before any byte of it is stored;
\* the unwinding drops the mapping.
WritePixel ==
    /\ pc = "write"
    /\ pix <= picture.w * picture.h
    /\ LET x     == PixX(picture, pix)
           y     == PixY(picture, pix)
           index == ByteIndex(x, y, buffer.pitch)
           bytes == StoredBytes(PixelAt(picture, x, y))
       IN  IF SkipPixel(x, buffer.size)
           THEN /\ pix' = pix + 1
                /\ Goto("write")
                /\ UNCHANGED <<mem, mapped, touched>>
           ELSE IF StopRow(y, buffer.size)
           THEN /\ Goto("unmap")
                /\ UNCHANGED <<mem, mapped, pix, touched>>
           ELSE IF index + 3 >= buffer.length
           THEN /\ Panic("index_out_of_bounds")
                /\ mapped' = FALSE
                /\ UNCHANGED <<mem, pix, touched>>
           ELSE /\ mem' = [mem EXCEPT ![index + 3] = bytes[4],
                                      ![index + 2] = bytes[3],
                                      ![index + 1] = bytes[2],
                                      ![index + 0] = bytes[1]]
                /\ touched' = touched \cup (index..(index + 3))
                /\ pix' = pix + 1
                /\ Goto("write")
                /\ UNCHANGED mapped
    /\ UNCHANGED <<hasArg, scanVars, master, calls, resVars, planeVars, picture, buffer,
                   outVars>>

\* enumerate_pixels is exhausted: the loop ends
EndOfPixels ==
    /\ pc = "write"
    /\ pix > picture.w * picture.h
    /\ Goto("unmap")
    /\ UNCHANGED <<hasArg, scanVars, master, calls, resVars, planeVars, bufVars, outVars>>

\* a copy with no block around it: the mapping outlives the loop
UnmapLeak ==
    /\ pc = "unmap"
    /\ Goto("add_framebuffer")
    /\ UNCHANGED <<hasArg, scanVars, master, calls, resVars, planeVars, bufVars, outVars>>

\* line 57: the block ends and `mapping` is dropped
Unmap ==
    /\ pc = "unmap"
    /\ mapped' = FALSE
    /\ Goto("add_framebuffer")
    /\ UNCHANGED <<hasArg, scanVars, master, calls, resVars, planeVars, picture, buffer,
                   mem, pix, touched, outVars>>

---------------------------------------------------------------------------
(* display, lines 58-72: framebuffer, plane commit, release, park *)

\* an add_framebuffer that is tried again when it fails
AddFramebufferRetry ==
    /\ pc = "add_framebuffer"
    /\ calls' = Append(calls, Call("add_framebuffer", buffer.handle))
    /\ \/ /\ framebuffer' = 70
          /\ Goto("set_plane")
       \/ /\ Goto("add_framebuffer")
          /\ UNCHANGED framebuffer
    /\ UNCHANGED <<hasArg, scanVars, master, resVars, planeVars, bufVars, commit>>

\* line 58: add_framebuffer(&buffer, 32, 32)?
AddFramebuffer ==
    /\ pc = "add_framebuffer"
    /\ calls' = Append(calls, Call("add_framebuffer", buffer.handle))
    /\ \/ /\ framebuffer' = 70
          /\ Goto("set_plane")
       \/ /\ Bail("add_framebuffer")
          /\ UNCHANGED framebuffer
    /\ UNCHANGED <<hasArg, scanVars, master, resVars, planeVars, bufVars, commit>>

\* `<< 16` on a u32, as its two 16-bit halves: the low 16 bits of v become the
\* high half, the low half is zero, and the high 16 bits of v are shifted out
Shl16(v) == [hi |-> v % 65536, lo |-> 0]

\* lines 59-66: the arguments of set_plane
PlaneCommit ==
    [plane |-> plane.handle, crtc |-> crtc.handle, fb |-> framebuffer, flags |-> 0,
     dst |-> <<0, 0, buffer.size[1], buffer.size[2]>>,
     src |-> <<0, 0, Shl16(buffer.size[1]), Shl16(buffer.size[2])>>]

\* set_plane(..)?, and where display goes on when it succeeded
SetPlaneThen(next) ==
    /\ pc = "set_plane"
    /\ calls' = Append(calls, Call("set_plane", plane.handle))
    /\ commit' = PlaneCommit
    /\ \/ Goto(next)
       \/ Bail("set_plane")
    /\ UNCHANGED <<hasArg, scanVars, master, resVars, planeVars, bufVars, framebuffer>>

\* a display that parks right after the commit
SetPlaneNoRelease == SetPlaneThen("park")

\* lines 59-67: the commit is followed by the release of the lock
SetPlane == SetPlaneThen("release")

\* line 67: release_master_lock()?, then line 68
ReleaseMasterLock ==
    /\ pc = "release"
    /\ calls' = Append(calls, Call("release_master_lock", 0))
    /\ \/ /\ master' = FALSE
          /\ Goto("park")
       \/ /\ Bail("release_master_lock")
          /\ UNCHANGED master
    /\ UNCHANGED <<hasArg, scanVars, resVars, planeVars, bufVars, outVars>>

\* a single park() with no loop around it: a wake-up lets display return
ParkReturns ==
    /\ pc = "park"
    /\ Goto("exit")
    /\ UNCHANGED <<hasArg, scanVars, master, calls, resVars, planeVars, bufVars, outVars>>

\* lines 69-71: loop { park() }: a wake-up parks again
Park ==
    /\ pc = "park"
    /\ UNCHANGED vars

---------------------------------------------------------------------------
(* The program *)

Next ==
    \/ Main
    \/ OpenCard
    \/ AcquireMasterLock
    \/ ResourceHandles
    \/ GetConnector
    \/ NoConnector
    \/ GetEncoder
    \/ GetCrtc
    \/ PlaneHandles
    \/ GetPlane
    \/ NoPlane
    \/ CheckFormat
    \/ Decode
    \/ CreateDumbBuffer
    \/ MapDumbBuffer
    \/ WritePixel
    \/ EndOfPixels
    \/ Unmap
    \/ AddFramebuffer
    \/ SetPlane
    \/ ReleaseMasterLock
    \/ Park

Spec == Init /\ [][Next]_vars

---------------------------------------------------------------------------
(* The copy loop of lines 43-56 on its own: any image on any mapped buffer *)

CopyInit ==
    /\ hasArg = TRUE
    /\ pc = "write"
    /\ err = ""
    /\ scanIdx = 1
    /\ card = 0
    /\ openResult = "ok"
    /\ emitted = -1
    /\ master = TRUE
    /\ calls = <<>>
    /\ resources = NoResources
    /\ connIdx = 0
    /\ probe = NoInfo
    /\ connector = NoInfo
    /\ encoder = NoInfo
    /\ crtc = NoInfo
    /\ planeHandles = <<>>
    /\ planeIdx = 0
    /\ plane = NoInfo
    /\ \E w \in 1..MaxDim, h \in 1..MaxDim, pat \in Patterns :
          picture = [w |-> w, h |-> h, pat |-> pat]
    /\ \E w \in 1..MaxDim, h \in 1..MaxDim :
          \E pitch \in Pitches(w) :
             /\ buffer = NewBuffer(w, h, pitch)
             /\ mem = Zeroed(h * pitch)
    /\ mapped = TRUE
    /\ pix = 1
    /\ touched = {}
    /\ framebuffer = 0
    /\ commit = NoCommit

CopyNext ==
    \/ WritePixel
    \/ EndOfPixels
    \/ Unmap

SpecCopy == CopyInit /\ [][CopyNext]_vars

---------------------------------------------------------------------------
(* The commit of lines 59-72 on its own: buffers of any u32 width and height *)

\* widths and heights around the 16-bit boundary of the 16.16 format
RectDims == {1, 2, 255, 65535, 65536, 65537, 131072, 2147483647}

\* display is about to call set_plane; the buffer's pitch, length and bytes
\* play no part in the call and are left out
RectInit ==
    /\ hasArg = TRUE
    /\ pc = "set_plane"
    /\ err = ""
    /\ scanIdx = 1
    /\ card = 0
    /\ openResult = "ok"
    /\ emitted = -1
    /\ master = TRUE
    /\ calls = <<>>
    /\ resources = Catalog(1)
    /\ connIdx = 1
    /\ probe = [handle |-> 101, state |-> "Connected", encoder |-> 31]
    /\ connector = probe
    /\ encoder = [handle |-> 31, crtc |-> 41]
    /\ crtc = [handle |-> 41]
    /\ planeHandles = <<>>
    /\ planeIdx = 0
    /\ plane = [handle |-> PlaneHandle(1), crtc |-> 0, possible |-> 1,
                formats |-> <<Argb8888>>]
    /\ \E w \in RectDims, h \in RectDims :
          /\ picture = [w |-> w, h |-> h, pat |-> "red"]
          /\ buffer = [size |-> <<w, h>>, pitch |-> 0, length |-> 0, handle |-> 60]
    /\ mem = <<>>
    /\ mapped = FALSE
    /\ pix = 0
    /\ touched = {}
    /\ framebuffer = 70
    /\ commit = NoCommit

RectNext ==
    \/ SetPlane
    \/ ReleaseMasterLock
    \/ Park

SpecRect == RectInit /\ [][RectNext]_vars

---------------------------------------------------------------------------
(* Properties *)

\* positions of the calls of one operation in the log
CallsOf(op) == {i \in 1..Len(calls) : calls[i].op = op}

\* the resource-graph queries
GraphQueries ==
    {"resource_handles", "get_connector", "get_encoder", "get_crtc",
     "plane_handles", "get_plane"}

\* the calls that allocate or present the buffer
BufferCalls ==
    {"create_dumb_buffer", "map_dumb_buffer", "add_framebuffer", "set_plane"}

\* C1: a run that reaches the idle wait has acquired the master lock exactly once
\* and released it exactly once; in every run each resource-graph query comes
\* after the acquire, and each release comes after the set_plane call.
C1_MasterLockOnce ==
    /\ pc = "park" =>
          /\ Cardinality(CallsOf("acquire_master_lock")) = 1
          /\ Cardinality(CallsOf("release_master_lock")) = 1
          /\ CallsOf("set_plane") # {}
    /\ \A i \in 1..Len(calls) :
          calls[i].op \in GraphQueries =>
             \E j \in CallsOf("acquire_master_lock") : j < i
    /\ \A i \in CallsOf("release_master_lock") :
          \E j \in CallsOf("set_plane") : j < i

\* C1 witness: the idle wait is reached after planes were fetched and committed
C1_Witness ==
    /\ pc = "park"
    /\ CallsOf("get_plane") # {}
    /\ commit.plane # 0

\* get_crtc_plane has returned a plane
PlaneSelected == plane.handle # 0 /\ planeIdx = 0

\* C2: when the selected plane's formats lack ARGB8888 the run is at the format
\* check or has aborted with the unsupported-format error, and no dumb-buffer
\* create, map, framebuffer add or plane commit has been called.
C2_NoArgbAborts ==
    (PlaneSelected /\ Argb8888 \notin Range(plane.formats)) =>
        /\ pc \in {"format", "error"}
        /\ pc = "error" => err = "unsupported_format"
        /\ \A i \in 1..Len(calls) : calls[i].op \notin BufferCalls
        /\ buffer = NoBuffer /\ ~mapped /\ framebuffer = 0 /\ commit = NoCommit

\* C2 witness: a run aborted on a selected plane without ARGB8888
C2_Witness ==
    /\ PlaneSelected
    /\ Argb8888 \notin Range(plane.formats)
    /\ pc = "error"
    /\ err = "unsupported_format"

\* C3: every byte the copy loop stores to lies inside the H * P bytes of the
\* mapping and inside the first 4 * W bytes of its row, so no pixel with
\* x >= W is stored; the loop never indexes out of bounds.
C3_WritesInBounds ==
    /\ pc # "panic"
    /\ \A i \in touched :
          /\ 0 <= i
          /\ i < buffer.size[2] * buffer.pitch
          /\ i < buffer.length
          /\ i % buffer.pitch < 4 * buffer.size[1]

\* C3 witness: an image wider than the buffer has been copied
C3_Witness ==
    /\ pc = "unmap"
    /\ picture.w > buffer.size[1]
    /\ pix > picture.w
    /\ touched # {}

\* the image and the buffer have the same size
SameSize == buffer.size = <<picture.w, picture.h>>

\* C4: after the loop over a W x H image on a W x H buffer, each pixel's bytes
\* are b, g, r, a at x * 4 + y * P, and every other byte of the mapping is
\* as it was (zero, never stored to): the row padding, and nothing at or
\* beyond H * P.
C4_BgraLayout ==
    (pc \in {"unmap", "add_framebuffer"} /\ SameSize) =>
        /\ \A x \in 0..(picture.w - 1), y \in 0..(picture.h - 1) :
              LET px == PixelAt(picture, x, y)
                  o  == x * 4 + y * buffer.pitch
              IN  /\ mem[o] = px[3]
                  /\ mem[o + 1] = px[2]
                  /\ mem[o + 2] = px[1]
                  /\ mem[o + 3] = px[4]
        /\ picture.pat = "red" =>
              \A y \in 0..(picture.h - 1) :
                 <<mem[y * buffer.pitch], mem[y * buffer.pitch + 1],
                   mem[y * buffer.pitch + 2], mem[y * buffer.pitch + 3]>>
                    = <<0, 0, 255, 255>>
        /\ DOMAIN mem = 0..(picture.h * buffer.pitch - 1)
        /\ \A i \in DOMAIN mem :
              i % buffer.pitch >= 4 * picture.w => mem[i] = 0 /\ i \notin touched
        /\ \A i \in touched : i < picture.h * buffer.pitch

\* C4 witness: a full image of distinct pixels copied to a padded buffer
C4_Witness ==
    /\ pc = "unmap"
    /\ SameSize
    /\ picture.pat = "distinct"
    /\ picture.w = MaxDim /\ picture.h = MaxDim
    /\ buffer.pitch > 4 * picture.w
    /\ Cardinality(touched) = 4 * picture.w * picture.h

\* C5: with an image taller than the buffer the loop never panics and ends at
\* the first pixel of the first row y >= H, with no pixel of that or a later
\* row visited past it and no byte of such a row stored, also when the image
\* is wider than the buffer as well.
C5_StopsAtBufferHeight ==
    picture.h > buffer.size[2] =>
        /\ pc # "panic"
        /\ pc = "write" => pix <= picture.w * buffer.size[2] + 1
        /\ pc = "unmap" =>
              /\ pix = picture.w * buffer.size[2] + 1
              /\ PixX(picture, pix) = 0
              /\ PixY(picture, pix) = buffer.size[2]
        /\ \A i \in touched : i \div buffer.pitch < buffer.size[2]

\* C5 witness: the loop stopped on an image both taller and wider than the buffer
C5_Witness ==
    /\ pc = "unmap"
    /\ picture.h > buffer.size[2]
    /\ picture.w > buffer.size[1]
    /\ touched # {}

\* C6: a live mapping exists only in the write step: while the buffer is mapped
\* no framebuffer is registered, no add_framebuffer or set_plane call has been
\* made, and every state outside the write step has the mapping released.
C6_MappingScoped ==
    /\ mapped =>
          /\ pc \in {"write", "unmap"}
          /\ framebuffer = 0
          /\ commit = NoCommit
          /\ CallsOf("add_framebuffer") = {}
          /\ CallsOf("set_plane") = {}
    /\ pc \notin {"write", "unmap"} => ~mapped

\* C6 witness: the framebuffer is registered after a copy, the mapping released
C6_Witness ==
    /\ framebuffer # 0
    /\ touched # {}
    /\ ~mapped

\* C7: when all of card0..card255 failed to open, the run has ended with the
\* no-device error, and no master-lock acquire, resource query or connector
\* read was made; no call is made on a card before one is opened.
C7_NoDeviceNoCalls ==
    /\ (card = -1 /\ scanIdx > LastCard) =>
          /\ pc = "error"
          /\ err = "no_card"
          /\ calls = <<>>
          /\ ~master
          /\ resources = NoResources
          /\ probe = NoInfo /\ connector = NoInfo
    /\ card = -1 => calls = <<>>

\* C7 witness: the scan ran through card255 and the run failed
C7_Witness ==
    /\ card = -1
    /\ scanIdx = LastCard + 1
    /\ openResult # "ok"
    /\ pc = "error"

\* where a scan goes after a failed open of card{scanIdx}
C8_ScanGoesOn == IF scanIdx < LastCard THEN pc' = "find_device" ELSE pc' = "error"

\* one step of the scan
C8_ScanStep ==
    pc = "find_device" =>
        /\ scanIdx \in 0..LastCard
        /\ scanIdx' = scanIdx + 1
        /\ openResult' = "ok" =>
              card' = scanIdx /\ pc' = "acquire" /\ emitted' = -1
        /\ openResult' = "not_found" =>
              card' = -1 /\ emitted' = -1 /\ C8_ScanGoesOn
        /\ openResult' \notin {"ok", "not_found"} =>
              card' = -1 /\ emitted' = scanIdx /\ C8_ScanGoesOn

\* the scan starts at 0, and no node is opened once one has opened
C8_ScanInv ==
    /\ pc = "main" => scanIdx = 0
    /\ card # -1 => card \in 0..LastCard /\ scanIdx = card + 1 /\ openResult = "ok"
    /\ pc \notin {"main", "find_device"} => (card # -1 \/ pc = "error")

\* C8: the scan opens card0, card1, .. card255 in this order; the first open
\* that succeeds ends it with that node's handle and no later node is opened;
\* a not-found failure prints nothing, any other failure prints a diagnostic
\* naming the node, and after either the scan goes on to the next identifier.
C8_DeviceScan == []C8_ScanInv /\ [][C8_ScanStep]_vars

\* C8 witness: the last node of the range opened after every other one failed
C8_Witness ==
    /\ card = LastCard
    /\ pc = "acquire"

\* the handles asked of get_connector, in call order
ConnectorCalls == SelectSeq(calls, LAMBDA c : c.op = "get_connector")

\* one step of the connector search
C9_ResolveStep ==
    pc = "connectors" =>
        IF connIdx <= Len(resources.connectors)
        THEN /\ probe'.handle = resources.connectors[connIdx]
             /\ IF probe'.state = "Connected"
                THEN connector' = probe' /\ pc' = "encoder"
                ELSE /\ connector' = NoInfo
                     /\ connIdx' = connIdx + 1
                     /\ pc' = "connectors"
        ELSE pc' = "error" /\ err' = "no_connected_output"

\* the fetches follow the catalog and end at the match
C9_ResolveInv ==
    /\ Len(ConnectorCalls) <= Len(resources.connectors)
    /\ \A k \in 1..Len(ConnectorCalls) :
          ConnectorCalls[k].arg = resources.connectors[k]
    /\ connector.handle # 0 =>
          /\ connector.state = "Connected"
          /\ ConnectorCalls[Len(ConnectorCalls)].arg = connector.handle
    /\ err = "no_connected_output" =>
          /\ pc = "error"
          /\ connector = NoInfo
          /\ Len(ConnectorCalls) = Len(resources.connectors)
          /\ \A i \in 1..Len(calls) :
                calls[i].op \notin {"get_encoder", "get_crtc", "plane_handles",
                                    "get_plane"}

\* C9: connectors are fetched in catalog order, each one whose fetched state
\* is not Connected is passed over, the first one whose state is Connected is
\* selected and none is fetched after it; with none Connected the run fails
\* with the no-connected-output error and no encoder, crtc or plane is fetched.
C9_FirstConnected == []C9_ResolveInv /\ [][C9_ResolveStep]_vars

\* C9 witness: the second connector of the catalog was selected
C9_Witness ==
    /\ Len(resources.connectors) >= 2
    /\ connector.handle = resources.connectors[2]
    /\ pc = "encoder"

\* the plane is unassigned and the catalog resolves its mask to the target crtc
Qualifies(info) ==
    /\ info.crtc = 0
    /\ \E n \in 1..Len(resources.crtcs) :
          /\ resources.crtcs[n] = crtc.handle
          /\ (info.possible \div 2 ^ (n - 1)) % 2 = 1

\* the handles asked of get_plane, in call order
PlaneCalls == SelectSeq(calls, LAMBDA c : c.op = "get_plane")

\* one step of the plane search
C10_PlaneStep ==
    pc = "planes" =>
        IF planeIdx <= Len(planeHandles)
        THEN \/ pc' = "error" /\ err' = "get_plane"
             \/ /\ plane'.handle = planeHandles[planeIdx]
                /\ IF Qualifies(plane')
                   THEN pc' = "format"
                   ELSE /\ pc' = "planes"
                        /\ planeIdx' = planeIdx + 1
                        /\ planeHandles' = planeHandles
        ELSE pc' = "error" /\ err' = "no_suitable_plane"

\* the selected and the committed plane
C10_PlaneInv ==
    /\ \A k \in 1..Len(PlaneCalls) : PlaneCalls[k].arg = PlaneHandle(k)
    /\ pc = "planes" =>
          /\ Len(PlaneCalls) = planeIdx - 1
          /\ planeIdx > 1 => ~Qualifies(plane)
    /\ PlaneSelected =>
          /\ Qualifies(plane)
          /\ PlaneCalls[Len(PlaneCalls)].arg = plane.handle
    /\ commit # NoCommit =>
          /\ PlaneSelected
          /\ commit.plane = plane.handle
          /\ commit.crtc = crtc.handle
    /\ err = "no_suitable_plane" =>
          /\ pc = "error"
          /\ planeIdx = Len(planeHandles) + 1
          /\ commit = NoCommit

\* C10: planes are fetched in enumeration order, each one that is assigned to
\* a crtc or cannot reach the target crtc is passed over, the first one that
\* is unassigned and reaches it is returned, and that plane is the one given
\* to set_plane; when the planes run out the run fails with the
\* no-suitable-plane error.
C10_FirstFreePlane == []C10_PlaneInv /\ [][C10_PlaneStep]_vars

\* C10 witness: of two planes the second was selected and committed
C10_Witness ==
    /\ commit.plane = PlaneHandle(2)
    /\ Len(PlaneCalls) = 2
    /\ pc = "release"

\* C11: every failure of an operation on the opened card ends the run at once:
\* after a failed get_connector, as after any other failure, the run is in its
\* error or panic state and goes on to no other output.
C11_EveryFailureAborts ==
    /\ err # "" => pc \in {"error", "panic"}
    /\ (probe.handle # 0 /\ probe.state = "fetch_failed") =>
          pc \in {"error", "panic"}

\* C12: the commit's destination rectangle is (0, 0, W, H) and its source
\* rectangle is (0, 0, W << 16, H << 16) in u32 arithmetic, whose integer part
\* (the high 16 bits) is W and H and whose fraction (the low 16 bits) is zero.
C12_SourceCoversExtent ==
    commit # NoCommit =>
        /\ commit.dst = <<0, 0, buffer.size[1], buffer.size[2]>>
        /\ commit.src[1] = 0 /\ commit.src[2] = 0
        /\ commit.src[3].hi = buffer.size[1] /\ commit.src[3].lo = 0
        /\ commit.src[4].hi = buffer.size[2] /\ commit.src[4].lo = 0

\* the positions of display from the resource query to the release call
LockStages ==
    {"resources", "connectors", "encoder", "crtc", "plane_handles", "planes",
     "format", "decode", "create", "map", "write", "unmap", "add_framebuffer",
     "set_plane", "release"}

\* C13: while the running program holds the master lock it is at a stage from
\* the resource query to the release call that follows the commit; in the idle
\* wait the lock is not held.  (A run that has ended in an error or a panic
\* has exited; see C17 for what it leaves unreleased.)
C13_LockOnlyDuringModeset ==
    /\ (master /\ pc \notin {"error", "panic"}) => pc \in LockStages
    /\ pc = "park" => ~master
    /\ pc \in LockStages => master

\* C13 witness: the lock is still held at the release step after the commit
C13_Witness ==
    /\ master
    /\ pc = "release"
    /\ commit # NoCommit

\* the idle wait follows a successful commit and a successful release
C14_IdleInv ==
    /\ pc = "park" =>
          /\ err = ""
          /\ commit # NoCommit
          /\ ~master
          /\ ~mapped
          /\ Len(calls) >= 2
          /\ calls[Len(calls)].op = "release_master_lock"
          /\ calls[Len(calls) - 1].op = "set_plane"
    /\ pc \in {"main", "find_device", "acquire", "park", "error", "panic"}
                 \cup LockStages
    /\ pc \in {"error", "panic"} <=> err # ""

\* a step taken in the idle wait
C14_IdleStep == pc = "park" => (pc' = "park" /\ calls' = calls)

\* C14: the idle wait is entered only after set_plane and then
\* release_master_lock have succeeded; every step from it stays in it and
\* makes no call; and the only ways display ends are an error or a panic,
\* never a successful return.
C14_IdleIsTerminal == []C14_IdleInv /\ [][C14_IdleStep]_vars

\* C14 witness: the program is parked with the image committed
C14_Witness ==
    /\ pc = "park"
    /\ commit.fb # 0
    /\ calls[Len(calls)].op = "release_master_lock"

\* C15: a program started without the image path is at the start of main or
\* has ended with the usage error, and has opened no device node, made no call
\* on a card and acquired no master lock.
C15_NoArgNoDevice ==
    ~hasArg =>
        /\ pc \in {"main", "error"}
        /\ pc = "error" => err = "usage"
        /\ scanIdx = 0 /\ openResult = "" /\ card = -1
        /\ calls = <<>>
        /\ ~master

\* C15 witness: the run without an argument has ended
C15_Witness ==
    /\ ~hasArg
    /\ pc = "error"
    /\ err = "usage"

\* the place of each call in the pipeline
CallRank(op) ==
    CASE op = "acquire_master_lock" -> 1
      [] op = "resource_handles"    -> 2
      [] op = "get_connector"       -> 3
      [] op = "get_encoder"         -> 4
      [] op = "get_crtc"            -> 5
      [] op = "plane_handles"       -> 6
      [] op = "get_plane"           -> 7
      [] op = "create_dumb_buffer"  -> 8
      [] op = "map_dumb_buffer"     -> 9
      [] op = "add_framebuffer"     -> 10
      [] op = "set_plane"           -> 11
      [] op = "release_master_lock" -> 12

\* the positions of main and display in program order
PcOrder ==
    <<"main", "find_device", "acquire", "resources", "connectors", "encoder",
      "crtc", "plane_handles", "planes", "format", "decode", "create", "map",
      "write", "unmap", "add_framebuffer", "set_plane", "release", "park">>

\* the place of a position in program order; the two final positions come last
PcRank(p) ==
    IF p \in Range(PcOrder)
    THEN CHOOSE i \in 1..Len(PcOrder) : PcOrder[i] = p
    ELSE Len(PcOrder) + 1

\* the calls are made in pipeline order, each once (the fetches of the two
\* searches once per handle), each after the stage before it has succeeded
C16_OrderInv ==
    /\ \A i, j \in 1..Len(calls) :
          i < j =>
             \/ CallRank(calls[i].op) < CallRank(calls[j].op)
             \/ /\ calls[i].op = calls[j].op
                /\ calls[i].op \in {"get_connector", "get_plane"}
                /\ calls[i].arg < calls[j].arg
    /\ calls # <<>> =>
          /\ card # -1 /\ scanIdx = card + 1
          /\ calls[1].op = "acquire_master_lock"
    /\ Len(calls) >= 2 => (master \/ CallsOf("release_master_lock") # {})
    /\ CallsOf("get_connector") # {} => resources # NoResources
    /\ CallsOf("get_encoder") # {} => connector.handle # 0
    /\ CallsOf("get_crtc") # {} => encoder.handle # 0
    /\ CallsOf("plane_handles") # {} => crtc.handle # 0
    /\ (pc = "decode" \/ picture # NoPicture) =>
          PlaneSelected /\ Argb8888 \in Range(plane.formats)
    /\ CallsOf("create_dumb_buffer") # {} => picture # NoPicture
    /\ CallsOf("map_dumb_buffer") # {} => buffer # NoBuffer
    /\ CallsOf("add_framebuffer") # {} => (touched # {} /\ ~mapped)
    /\ CallsOf("set_plane") # {} => framebuffer # 0
    /\ CallsOf("release_master_lock") # {} => commit # NoCommit
    /\ pc = "park" => (CallsOf("release_master_lock") # {} /\ ~master)

\* the position never moves back
C16_OrderStep == PcRank(pc') >= PcRank(pc)

\* C16: the stages run once each in the order open, acquire, resources,
\* connector, encoder, crtc, plane, format, decode, create, map and write,
\* add_framebuffer, set_plane, release, idle; there is one card, one buffer,
\* one framebuffer and one commit per run, and no stage starts before the one
\* before it has succeeded.
C16_FixedOrderOnce == []C16_OrderInv /\ [][C16_OrderStep]_vars

\* C16 witness: a run went through every stage to the idle wait
C16_Witness ==
    /\ pc = "park"
    /\ Len(ConnectorCalls) = 2
    /\ Cardinality({calls[i].op : i \in 1..Len(calls)}) = 12

\* C17: a failed acquire ends the run with no further call; a run that ends
\* after the lock was acquired, by any failure up to and including set_plane,
\* still holds the lock and has made no release call; the release call is made
\* once, right after a set_plane that succeeded.
C17_NoReleaseOnAbort ==
    /\ err = "acquire_master_lock" =>
          pc = "error" /\ Len(calls) = 1 /\ ~master
    /\ (~master /\ CallsOf("release_master_lock") = {}) => Len(calls) <= 1
    /\ (pc \in {"error", "panic"} /\ err \notin {"usage", "no_card",
           "acquire_master_lock", "release_master_lock"}) =>
          master /\ CallsOf("release_master_lock") = {}
    /\ \A i \in CallsOf("release_master_lock") :
          /\ i = Len(calls)
          /\ i > 1
          /\ calls[i - 1].op = "set_plane"
          /\ commit # NoCommit
          /\ err # "set_plane"

\* C17 witness: the commit failed and the run ended with the lock unreleased
C17_Witness ==
    /\ pc = "error"
    /\ err = "set_plane"
    /\ master
    /\ CallsOf("release_master_lock") = {}

\* C18: the image is decoded only once a card, a Connected connector with
\* its encoder and crtc, and a free plane with ARGB8888 are at hand, with the
\* master lock held and no dumb buffer created yet; a failed decode ends the
\* run with no buffer, framebuffer or commit; and the dumb buffer has the
\* decoded image's width and height.
C18_DecodeBeforeBuffer ==
    /\ (pc = "decode" \/ picture # NoPicture \/ err = "unwrap_image_open") =>
          /\ card # -1
          /\ CallsOf("acquire_master_lock") # {}
          /\ connector.handle # 0
          /\ connector.state = "Connected"
          /\ encoder.handle # 0
          /\ crtc.handle # 0
          /\ PlaneSelected
          /\ Qualifies(plane)
          /\ Argb8888 \in Range(plane.formats)
    /\ pc \in {"decode", "create"} =>
          /\ master
          /\ buffer = NoBuffer
          /\ CallsOf("create_dumb_buffer") = {}
    /\ pc = "create" => picture # NoPicture
    /\ err = "unwrap_image_open" =>
          /\ pc = "panic"
          /\ picture = NoPicture
          /\ buffer = NoBuffer /\ framebuffer = 0 /\ commit = NoCommit
          /\ \A i \in 1..Len(calls) : calls[i].op \notin BufferCalls
    /\ buffer # NoBuffer =>
          /\ picture # NoPicture
          /\ buffer.size = <<picture.w, picture.h>>

\* C18 witness: a buffer was created for an image that is not square
C18_Witness ==
    /\ pc = "map"
    /\ buffer # NoBuffer
    /\ picture.w # picture.h

=============================================================================
